---- MODULE Spec2Model ----
(***************************************************************************)
(* A model of the maintenance scripts of the lens knowledge graph:         *)
(*   scripts/generate_contrasts_json.py   (ContrastGenerator and main)     *)
(*   apps/api/scripts/reembed_with_sentence_transformers.py                *)
(*                                                                         *)
(* Representation.                                                         *)
(*  - A Python string is the sequence of its character codes, so that      *)
(*    str.lower() and the substring test `w in s` are computed.            *)
(*    The texts a lens can carry are the rows of DefText (definitions)     *)
(*    and ConceptText (related concepts); a lens holds the row number.     *)
(*  - Floats are fixed point.  A distance and a dialectic score are in     *)
(*    thousandths, a combined score in ten-thousandths (7*d + 3*s), a      *)
(*    weight in hundredths.  round(w, 2) is round-half-up on this grid,    *)
(*    which is what the float arithmetic of lines 200 and 270-271 yields   *)
(*    for every distance 0.000 .. 2.000 and every dialectic score.         *)
(*  - An embedding vector is named by a number; the cosine distance of     *)
(*    two stored vectors is read from DistanceTable.                       *)
(*  - A call of the entity store is atomic: it either raises and changes   *)
(*    nothing, or returns.                                                 *)
(***************************************************************************)
EXTENDS Integers, Sequences, FiniteSets, TLC

\* ------------------------------------------------------------------ bounds

\* Number of lenses in the entity store.
MaxLenses == 3
\* Largest number of records in the existing-connections file.
MaxConnections == 1
\* Largest --limit given on the command line.
MaxLimit == 1
\* Largest combined score (ten-thousandths) handed to the weight mapping.
MaxScore == 17000
\* The largest limit find_contrast_candidates is called with.
MaxFindLimit == 2

\* ------------------------------------------------------------ text helpers

Min(a, b) == IF a <= b THEN a ELSE b
Max(a, b) == IF a >= b THEN a ELSE b

\* str.lower() on ASCII text.
lower(text) ==
  [p \in 1..Len(text) |-> IF text[p] \in 65..90 THEN text[p] + 32 ELSE text[p]]

\* The substring test `word in text`.
Contains(word, text) ==
  \E p \in 1..(Len(text) - Len(word) + 1) :
     SubSeq(text, p, p + Len(word) - 1) = word

\* The opposing-word pairs of calculate_dialectic_score.
dialectic_pairs ==
  <<
    (* centralized / decentralized *)
    << <<99, 101, 110, 116, 114, 97, 108, 105, 122, 101, 100>>,
       <<100, 101, 99, 101, 110, 116, 114, 97, 108, 105, 122, 101, 100>> >>,
    (* control / freedom *)
    << <<99, 111, 110, 116, 114, 111, 108>>,
       <<102, 114, 101, 101, 100, 111, 109>> >>,
    (* stability / change *)
    << <<115, 116, 97, 98, 105, 108, 105, 116, 121>>,
       <<99, 104, 97, 110, 103, 101>> >>,
    (* conservative / liberal *)
    << <<99, 111, 110, 115, 101, 114, 118, 97, 116, 105, 118, 101>>,
       <<108, 105, 98, 101, 114, 97, 108>> >>,
    (* individual / collective *)
    << <<105, 110, 100, 105, 118, 105, 100, 117, 97, 108>>,
       <<99, 111, 108, 108, 101, 99, 116, 105, 118, 101>> >>,
    (* short-term / long-term *)
    << <<115, 104, 111, 114, 116, 45, 116, 101, 114, 109>>,
       <<108, 111, 110, 103, 45, 116, 101, 114, 109>> >>,
    (* reactive / proactive *)
    << <<114, 101, 97, 99, 116, 105, 118, 101>>,
       <<112, 114, 111, 97, 99, 116, 105, 118, 101>> >>,
    (* top-down / bottom-up *)
    << <<116, 111, 112, 45, 100, 111, 119, 110>>,
       <<98, 111, 116, 116, 111, 109, 45, 117, 112>> >>,
    (* rigid / flexible *)
    << <<114, 105, 103, 105, 100>>,
       <<102, 108, 101, 120, 105, 98, 108, 101>> >>,
    (* specialized / generalized *)
    << <<115, 112, 101, 99, 105, 97, 108, 105, 122, 101, 100>>,
       <<103, 101, 110, 101, 114, 97, 108, 105, 122, 101, 100>> >>,
    (* compete / cooperate *)
    << <<99, 111, 109, 112, 101, 116, 101>>,
       <<99, 111, 111, 112, 101, 114, 97, 116, 101>> >>,
    (* open / closed *)
    << <<111, 112, 101, 110>>,
       <<99, 108, 111, 115, 101, 100>> >>,
    (* fast / slow *)
    << <<102, 97, 115, 116>>,
       <<115, 108, 111, 119>> >>,
    (* explicit / implicit *)
    << <<101, 120, 112, 108, 105, 99, 105, 116>>,
       <<105, 109, 112, 108, 105, 99, 105, 116>> >>,
    (* formal / informal *)
    << <<102, 111, 114, 109, 97, 108>>,
       <<105, 110, 102, 111, 114, 109, 97, 108>> >>
  >>

\* The stoplist of find_contrast_candidates.
generic_concepts ==
  {
    (* core concepts *) <<99, 111, 114, 101, 32, 99, 111, 110, 99, 101, 112, 116, 115>>,
    (* systems thinking *) <<115, 121, 115, 116, 101, 109, 115, 32, 116, 104, 105, 110, 107, 105, 110, 103>>,
    (* thinking *) <<116, 104, 105, 110, 107, 105, 110, 103>>,
    (* concepts *) <<99, 111, 110, 99, 101, 112, 116, 115>>,
    (* strategy *) <<115, 116, 114, 97, 116, 101, 103, 121>>,
    (* management *) <<109, 97, 110, 97, 103, 101, 109, 101, 110, 116>>,
    (* leadership *) <<108, 101, 97, 100, 101, 114, 115, 104, 105, 112>>,
    (* organizational *) <<111, 114, 103, 97, 110, 105, 122, 97, 116, 105, 111, 110, 97, 108>>
  }

\* The definition texts a lens of the store can carry.
DefText ==
  <<
    (* 1: "" *)
    <<>>,
    (* 2: "a centralized system" *)
    <<97, 32, 99, 101, 110, 116, 114, 97, 108, 105, 122, 101, 100, 32, 115, 121, 115, 116, 101, 109>>,
    (* 3: "a decentralized network" *)
    <<97, 32, 100, 101, 99, 101, 110, 116, 114, 97, 108, 105, 122, 101, 100, 32, 110, 101, 116, 119, 111, 114, 107>>,
    (* 4: "Control through stability" *)
    <<67, 111, 110, 116, 114, 111, 108, 32, 116, 104, 114, 111, 117, 103, 104, 32, 115, 116, 97, 98, 105, 108, 105, 116, 121>>,
    (* 5: "freedom to change" *)
    <<102, 114, 101, 101, 100, 111, 109, 32, 116, 111, 32, 99, 104, 97, 110, 103, 101>>,
    (* 6: "rigid formal closed slow explicit top-down control" *)
    <<114, 105, 103, 105, 100, 32, 102, 111, 114, 109, 97, 108, 32, 99, 108, 111, 115, 101, 100, 32, 115, 108, 111, 119, 32, 101, 120, 112, 108, 105, 99, 105, 116, 32, 116, 111, 112, 45, 100, 111, 119, 110, 32, 99, 111, 110, 116, 114, 111, 108>>,
    (* 7: "flexible informal open fast implicit bottom-up freedom" *)
    <<102, 108, 101, 120, 105, 98, 108, 101, 32, 105, 110, 102, 111, 114, 109, 97, 108, 32, 111, 112, 101, 110, 32, 102, 97, 115, 116, 32, 105, 109, 112, 108, 105, 99, 105, 116, 32, 98, 111, 116, 116, 111, 109, 45, 117, 112, 32, 102, 114, 101, 101, 100, 111, 109>>,
    (* 8: "Fast, Open and Flexible" *)
    <<70, 97, 115, 116, 44, 32, 79, 112, 101, 110, 32, 97, 110, 100, 32, 70, 108, 101, 120, 105, 98, 108, 101>>,
    (* 9: "slow closed rigid control" *)
    <<115, 108, 111, 119, 32, 99, 108, 111, 115, 101, 100, 32, 114, 105, 103, 105, 100, 32, 99, 111, 110, 116, 114, 111, 108>>
  >>

\* The related-concept tags a lens of the store can carry.
ConceptText ==
  <<
    (* 1: "ai" *) <<97, 105>>,
    (* 2: "AI" *) <<65, 73>>,
    (* 3: "control" *) <<99, 111, 110, 116, 114, 111, 108>>,
    (* 4: "freedom" *) <<102, 114, 101, 101, 100, 111, 109>>,
    (* 5: "strategy" *) <<115, 116, 114, 97, 116, 101, 103, 121>>,
    (* 6: "Strategy" *) <<83, 116, 114, 97, 116, 101, 103, 121>>,
    (* 7: "management" *) <<109, 97, 110, 97, 103, 101, 109, 101, 110, 116>>
  >>
\* ------------------------------------------------------------- value shapes

LensIds == 1..MaxLenses
DefIds == DOMAIN DefText
ConceptIds == DOMAIN ConceptText

\* The embedding vectors a lens can carry; ZeroVec is the all-zero vector.
VecIds == 1..4
ZeroVec == 5

\* The distance of two stored vectors, in thousandths (symmetric, 0 on the diagonal).
DistanceTable ==
  << <<   0, 750, 650, 920 >>,
     << 750,   0, 500, 800 >>,
     << 650, 500,   0, 930 >>,
     << 920, 800, 930,   0 >> >>

\* The float nan: every comparison with it is false.
NaN == -1

\* The embedding column of a row: NULL, a numeric array, or a string; a string
\* holds the JSON text of vector vec, or (vec = 0) text that is not JSON.
NullEmbedding == [kind |-> "null", vec |-> 0]
ArrayEmbedding(v) == [kind |-> "array", vec |-> v]
StringEmbedding(v) == [kind |-> "string", vec |-> v]

\* What a call returns: a value, None, or an exception that propagates.
None == [status |-> "none", vec |-> 0]
Some(v) == [status |-> "ok", vec |-> v]
Raised == [status |-> "raise", vec |-> 0]

Range(s) == {s[k] : k \in DOMAIN s}

\* --------------------------------------------------- ContrastGenerator: pure

\* A load that keeps no connection (the type is compared with another word).
load_existing_contrasts_wrong_type(conns) == SubSeq(conns, 1, 0)

\* load_existing_contrasts: the connections of type 'contrast', in file order.
RECURSIVE load_existing_contrasts(_)
load_existing_contrasts(conns) ==
  IF conns = <<>> THEN <<>>
  ELSE LET rest == load_existing_contrasts(Tail(conns))
       IN IF Head(conns).type = "contrast" THEN <<Head(conns)>> \o rest ELSE rest

\* get_uncovered_lenses: covered_ids.
covered_ids(existing) ==
  {existing[k].source_id : k \in DOMAIN existing} \cup
  {existing[k].target_id : k \in DOMAIN existing}

\* get_uncovered_lenses: the lenses whose id is not covered, in list order.
RECURSIVE get_uncovered_lenses(_, _)
get_uncovered_lenses(ls, existing) ==
  IF ls = <<>> THEN <<>>
  ELSE LET rest == get_uncovered_lenses(Tail(ls), existing)
       IN IF Head(ls).id \notin covered_ids(existing)
          THEN <<Head(ls)>> \o rest ELSE rest

\* The fetch without its exception handler.
get_lens_embedding_uncaught(stored, fetch_ok) ==
  IF ~fetch_ok THEN Raised
  ELSE IF stored.kind = "null" THEN None
  ELSE IF stored.kind = "string" /\ stored.vec = 0 THEN None
  ELSE Some(stored.vec)

\* get_lens_embedding: the row's embedding decoded, or None; fetch_ok is whether
\* the request to the store returned.
get_lens_embedding(stored, fetch_ok) ==
  IF ~fetch_ok THEN None
  ELSE IF stored.kind = "null" THEN None
  ELSE IF stored.kind = "string" /\ stored.vec = 0 THEN None
  ELSE Some(stored.vec)

\* cosine_distance, in thousandths; a zero norm divides 0 by 0.
cosine_distance(v1, v2) ==
  IF v1 = ZeroVec \/ v2 = ZeroVec THEN NaN ELSE DistanceTable[v1][v2]

\* The test in one assignment direction only.
PairMatches_one_direction(word1, word2, source_def, target_def) ==
  Contains(word1, source_def) /\ Contains(word2, target_def)

\* calculate_dialectic_score: the test of one pair of words.
PairMatches(word1, word2, source_def, target_def) ==
  \/ Contains(word1, source_def) /\ Contains(word2, target_def)
  \/ Contains(word2, source_def) /\ Contains(word1, target_def)

\* calculate_dialectic_score: the loop over the pairs, from pair k on.
RECURSIVE DialecticLoop(_, _, _, _)
DialecticLoop(source_def, target_def, k, score) ==
  IF k > Len(dialectic_pairs) THEN score
  ELSE DialecticLoop(source_def, target_def, k + 1,
         IF PairMatches(dialectic_pairs[k][1], dialectic_pairs[k][2],
                        source_def, target_def)
         THEN score + 200 ELSE score)

\* calculate_dialectic_score on the two definition texts, in thousandths.
DialecticOfTexts(source_text, target_text) ==
  Min(DialecticLoop(lower(source_text), lower(target_text), 1, 0), 1000)

\* The scores of all pairs of definition rows, computed once.
DialecticOfDefs ==
  [s \in DefIds |-> [t \in DefIds |-> DialecticOfTexts(DefText[s], DefText[t])] @@ <<>>] @@ <<>>

calculate_dialectic_score(source_lens, target_lens) ==
  DialecticOfDefs[source_lens.definition][target_lens.definition]

\* find_contrast_candidates: set(c.lower() for c in related_concepts).
LowerConcept == [c \in ConceptIds |-> lower(ConceptText[c]) @@ <<>>] @@ <<>>
concept_set(lens) == {LowerConcept[c] : c \in Range(lens.related_concepts)}

\* find_contrast_candidates: has_existing.
has_existing(source_lens, target_lens, existing) ==
  \E k \in DOMAIN existing :
     \/ existing[k].source_id = source_lens.id /\ existing[k].target_id = target_lens.id
     \/ existing[k].target_id = source_lens.id /\ existing[k].source_id = target_lens.id

\* find_contrast_candidates: has_meaningful_shared.
has_meaningful_shared(shared_concepts) ==
  \/ Cardinality(shared_concepts \ generic_concepts) >= 1
  \/ Cardinality(shared_concepts) >= 2

\* The band without its ends.
in_sweet_spot_exclusive(distance) ==
  distance # NaN /\ 650 < distance /\ distance < 920

\* find_contrast_candidates: 0.65 <= distance <= 0.92.
in_sweet_spot(distance) ==
  distance # NaN /\ 650 <= distance /\ distance <= 920

\* find_contrast_candidates: the combined score, in ten-thousandths.
combined_score(distance, dialectic_score) == distance * 7 + dialectic_score * 3

\* find_contrast_candidates: the candidate record of an admitted target.
Candidate(source_lens, target_lens, distance, shared_concepts) ==
  LET dialectic_score == calculate_dialectic_score(source_lens, target_lens)
  IN [lens |-> target_lens,
      distance |-> distance,
      dialectic_score |-> dialectic_score,
      combined_score |-> combined_score(distance, dialectic_score),
      shared_concepts |-> shared_concepts]

\* candidates.sort(key=combined_score, reverse=True): a stable insertion.
RECURSIVE InsertByScore(_, _)
InsertByScore(c, sorted) ==
  IF sorted = <<>> THEN <<c>>
  ELSE IF Head(sorted).combined_score >= c.combined_score
       THEN <<Head(sorted)>> \o InsertByScore(c, Tail(sorted))
       ELSE <<c>> \o sorted

\* The candidates left in scan order.
SortByScore_omitted(cs) == cs

RECURSIVE SortByScore(_)
SortByScore(cs) ==
  IF cs = <<>> THEN <<>>
  ELSE InsertByScore(cs[Len(cs)], SortByScore(SubSeq(cs, 1, Len(cs) - 1)))

\* The slice seq[:n] for n >= 0.
Take(seq, n) == SubSeq(seq, 1, Min(n, Len(seq)))

\* generate_contrasts: round(x, 2) of a value in hundred-thousandths.
Round2(w5) == (w5 + 500) \div 1000

\* The weight without the clamp.
Weight_unclamped(combined) == Round2(80000 + (combined - 4500) * 3)

\* The weight without the offset of 0.45.
Weight_no_offset(combined) ==
  Max(80, Min(95, Round2(80000 + combined * 3)))

\* generate_contrasts: the weight of a combined score, in hundredths.
Weight(combined) ==
  LET weight == 80000 + (combined - 4500) * 3
  IN Max(80, Min(95, Round2(weight)))

\* generate_contrasts: round(x, 3) of a combined score, in thousandths.
Round3(c4) == (c4 + 5) \div 10

\* find_contrast_candidates is called with limit=3.
CandidateLimit == 3

\* ------------------------------------------------------------------- state

VARIABLES
  store,               \* the lenses table of the entity store: a row per lens
  connections,         \* the records of CONNECTIONS_FILE
  limit,               \* args.limit: <<>> is None, <<n>> is --limit n
  pc,                  \* where main() is
  lenses,              \* self.lenses
  existing_contrasts,  \* self.existing_contrasts
  uncovered,           \* generate_contrasts: uncovered, after the limit
  i,                   \* generate_contrasts: position of the source in uncovered
  j,                   \* find_contrast_candidates: position of the target in lenses
  source_embedding,    \* find_contrast_candidates: source_embedding
  candidates,          \* find_contrast_candidates: candidates (its result once sorted)
  new_contrasts,       \* generate_contrasts: new_contrasts
  output,              \* every artifact written to the output file, in order
  exit_status,         \* what main() returned: <<>> while it runs
  abort_cause,         \* which step raised, "" if none
  last_fetch,          \* how the last get_lens_embedding call ended
  fetch_failed,        \* whether a get_lens_embedding request has raised in this run
  call_args,           \* a direct call of a pure function: its arguments
  call_result,         \* a direct call of a pure function: <<>> until it returns
  re_pc,               \* where reembed_lenses() is
  re_limit,            \* reembed_lenses: limit, <<>> is None
  dry_run,             \* reembed_lenses: dry_run
  re_lenses,           \* reembed_lenses: lenses, after the limit
  re_index,            \* reembed_lenses: position of the loop in lenses
  updated,             \* reembed_lenses: updated
  errors,              \* reembed_lenses: errors
  attempt_log,         \* ids of the lenses the loop body was entered for, in order
  update_log           \* ids of the lenses whose update the store executed, in order

gen_vars ==
  <<store, connections, limit, pc, lenses, existing_contrasts, uncovered, i, j,
    source_embedding, candidates, new_contrasts, output, exit_status,
    abort_cause, last_fetch, fetch_failed>>
run_vars ==
  <<pc, lenses, existing_contrasts, uncovered, i, j, source_embedding, candidates,
    new_contrasts, output, exit_status, abort_cause, last_fetch, fetch_failed>>
call_vars == <<call_args, call_result>>
re_vars ==
  <<re_pc, re_limit, dry_run, re_lenses, re_index, updated, errors, attempt_log,
    update_log>>
vars == <<gen_vars, call_vars, re_vars>>

\* ------------------------------------------------ generate_contrasts_json.py

\* load_lenses: the columns id, definition and related_concepts of every row.
load_lenses(rows) ==
  [k \in 1..Len(rows) |->
     [id |-> rows[k].id, definition |-> rows[k].definition,
      related_concepts |-> rows[k].related_concepts]]

\* generate_contrasts: `if limit: uncovered = uncovered[:limit]`.
ApplyLimit(seq, lim) ==
  IF lim # <<>> /\ lim[1] # 0 THEN Take(seq, lim[1]) ELSE seq

\* generate_contrasts: the record built from the best candidate.
Contrast(source_lens, best) ==
  [source_id |-> source_lens.id,
   target_id |-> best.lens.id,
   weight |-> Weight(best.combined_score),
   type |-> "contrast",
   metadata |-> [distance |-> best.distance,
                 dialectic_score |-> best.dialectic_score,
                 combined_score |-> Round3(best.combined_score),
                 shared_concepts |-> best.shared_concepts]]

\* generate_contrasts: what one source adds to new_contrasts, given the list
\* find_contrast_candidates returned.
TakeBest(source_lens, found, contrasts) ==
  IF found = <<>> THEN contrasts
  ELSE Append(contrasts, Contrast(source_lens, found[1]))

\* find_contrast_candidates: the candidates after the loop body ran on one
\* target whose embedding was fetched as target_embedding.
ScanOne(source_lens, src_emb, target_lens, target_embedding, existing, cands) ==
  IF target_lens.id = source_lens.id THEN cands
  ELSE IF has_existing(source_lens, target_lens, existing) THEN cands
  ELSE IF target_embedding.status # "ok" THEN cands
  ELSE LET distance == cosine_distance(src_emb.vec, target_embedding.vec)
           shared_concepts == concept_set(source_lens) \cap concept_set(target_lens)
       IN IF in_sweet_spot(distance) /\ has_meaningful_shared(shared_concepts)
          THEN Append(cands, Candidate(source_lens, target_lens, distance, shared_concepts))
          ELSE cands

\* Whether the loop body reaches the fetch of the target's embedding.
FetchesTarget(source_lens, target_lens, existing) ==
  /\ target_lens.id # source_lens.id
  /\ ~has_existing(source_lens, target_lens, existing)

\* find_contrast_candidates: the loop over self.lenses from target k on;
\* fetch_ok[id] is whether the request for the embedding of lens id returns.
RECURSIVE ScanFrom(_, _, _, _, _, _, _, _)
ScanFrom(source_lens, src_emb, ls, existing, rows, fetch_ok, k, cands) ==
  IF k > Len(ls) THEN cands
  ELSE LET target_lens == ls[k]
           fetched == IF FetchesTarget(source_lens, target_lens, existing)
                      THEN get_lens_embedding(rows[target_lens.id].embedding,
                                              fetch_ok[target_lens.id])
                      ELSE None
       IN ScanFrom(source_lens, src_emb, ls, existing, rows, fetch_ok, k + 1,
                   ScanOne(source_lens, src_emb, target_lens, fetched, existing, cands))

\* The candidates cut to the limit before they are sorted.
find_contrast_candidates_cut_first(source_lens, lim, ls, existing, rows, fetch_ok) ==
  LET src_emb == get_lens_embedding(rows[source_lens.id].embedding,
                                    fetch_ok[source_lens.id])
  IN IF src_emb.status # "ok" THEN <<>>
     ELSE SortByScore(Take(ScanFrom(source_lens, src_emb, ls, existing, rows,
                                    fetch_ok, 1, <<>>), lim))

\* find_contrast_candidates(source_lens, limit): the list returned, given the
\* lenses and contrasts the generator has loaded and the rows of the store.
find_contrast_candidates(source_lens, lim, ls, existing, rows, fetch_ok) ==
  LET src_emb == get_lens_embedding(rows[source_lens.id].embedding,
                                    fetch_ok[source_lens.id])
  IN IF src_emb.status # "ok" THEN <<>>
     ELSE Take(SortByScore(ScanFrom(source_lens, src_emb, ls, existing, rows,
                                    fetch_ok, 1, <<>>)), lim)

FetchOutcome(stored, fetch_ok) ==
  IF ~fetch_ok THEN "error"
  ELSE IF get_lens_embedding(stored, fetch_ok).status = "ok" THEN "ok" ELSE "missing"

\* main: the exception handler.
Abort(cause) ==
  /\ pc' = "failed"
  /\ exit_status' = <<1>>
  /\ abort_cause' = cause

\* ContrastGenerator(): credentials, load_lenses, load_existing_contrasts.
Construct ==
  /\ pc = "start"
  /\ lenses' = load_lenses(store)
  /\ existing_contrasts' = load_existing_contrasts(connections)
  /\ pc' = "constructed"
  /\ UNCHANGED <<call_vars, re_vars>>
  /\ UNCHANGED <<store, connections, limit, uncovered, i, j, source_embedding,
                 candidates, new_contrasts, output, exit_status, abort_cause,
                 last_fetch, fetch_failed>>

\* ContrastGenerator() raises: no credentials, the fetch of the lenses fails,
\* or the connections file cannot be read.
ConstructFails ==
  /\ pc = "start"
  /\ \E cause \in {"credentials", "lenses", "connections"} :
       /\ Abort(cause)
       /\ lenses' = IF cause = "connections" THEN load_lenses(store) ELSE lenses
  /\ UNCHANGED <<call_vars, re_vars>>
  /\ UNCHANGED <<store, connections, limit, existing_contrasts, uncovered, i, j,
                 source_embedding, candidates, new_contrasts, output,
                 last_fetch, fetch_failed>>

\* generate_contrasts up to the loop.
StartGenerate ==
  /\ pc = "constructed"
  /\ uncovered' = ApplyLimit(get_uncovered_lenses(lenses, existing_contrasts), limit)
  /\ new_contrasts' = <<>>
  /\ i' = 1
  /\ pc' = "source"
  /\ UNCHANGED <<call_vars, re_vars>>
  /\ UNCHANGED <<store, connections, limit, lenses, existing_contrasts, j,
                 source_embedding, candidates, output, exit_status, abort_cause,
                 last_fetch, fetch_failed>>

\* The loop of generate_contrasts enters find_contrast_candidates for the next
\* source and fetches its embedding; without one the source is skipped.
BeginSource ==
  /\ pc = "source"
  /\ i <= Len(uncovered)
  /\ \E fetch_ok \in BOOLEAN :
       LET source_lens == uncovered[i]
           fetched == get_lens_embedding(store[source_lens.id].embedding, fetch_ok)
       IN /\ last_fetch' = FetchOutcome(store[source_lens.id].embedding, fetch_ok)
          /\ fetch_failed' = (fetch_failed \/ ~fetch_ok)
          /\ source_embedding' = fetched
          /\ candidates' = <<>>
          /\ IF fetched.status = "raise"
             THEN Abort("embedding") /\ UNCHANGED <<i, j, new_contrasts>>
             ELSE IF fetched.status = "none"
             THEN /\ new_contrasts' = TakeBest(source_lens, <<>>, new_contrasts)
                  /\ i' = i + 1
                  /\ UNCHANGED <<pc, j, exit_status, abort_cause>>
             ELSE /\ pc' = "targets"
                  /\ j' = 1
                  /\ UNCHANGED <<i, new_contrasts, exit_status, abort_cause>>
  /\ UNCHANGED <<call_vars, re_vars>>
  /\ UNCHANGED <<store, connections, limit, lenses, existing_contrasts, uncovered,
                 output>>

\* One round of the loop over self.lenses in find_contrast_candidates; after
\* the last target the candidates are sorted and cut, and generate_contrasts
\* takes the best.
ScanTarget ==
  /\ pc = "targets"
  /\ j <= Len(lenses)
  /\ \E fetch_ok \in BOOLEAN :
       LET source_lens == uncovered[i]
           target_lens == lenses[j]
           fetches == FetchesTarget(source_lens, target_lens, existing_contrasts)
           fetched == IF fetches
                      THEN get_lens_embedding(store[target_lens.id].embedding, fetch_ok)
                      ELSE None
           scanned == ScanOne(source_lens, source_embedding, target_lens, fetched,
                              existing_contrasts, candidates)
           found == Take(SortByScore(scanned), CandidateLimit)
       IN /\ fetches \/ fetch_ok
          /\ last_fetch' = IF fetches
                           THEN FetchOutcome(store[target_lens.id].embedding, fetch_ok)
                           ELSE "skipped"
          /\ fetch_failed' = (fetch_failed \/ ~fetch_ok)
          /\ IF fetched.status = "raise"
             THEN Abort("embedding") /\ UNCHANGED <<i, j, candidates, new_contrasts>>
             ELSE IF j < Len(lenses)
             THEN /\ candidates' = scanned
                  /\ j' = j + 1
                  /\ UNCHANGED <<pc, i, new_contrasts, exit_status, abort_cause>>
             ELSE /\ candidates' = found
                  /\ new_contrasts' = TakeBest(source_lens, found, new_contrasts)
                  /\ i' = i + 1
                  /\ j' = j + 1
                  /\ pc' = "source"
                  /\ UNCHANGED <<exit_status, abort_cause>>
  /\ UNCHANGED <<call_vars, re_vars>>
  /\ UNCHANGED <<store, connections, limit, lenses, existing_contrasts, uncovered,
                 source_embedding, output>>

\* save_contrasts called in the loop of generate_contrasts, after each source.
Save_inside_loop ==
  /\ pc = "source"
  /\ output' = Append(output, [generated_count |-> Len(new_contrasts),
                               new_contrasts |-> new_contrasts])
  /\ IF i > Len(uncovered)
     THEN pc' = "done" /\ exit_status' = <<0>>
     ELSE UNCHANGED <<pc, exit_status>>
  /\ UNCHANGED <<call_vars, re_vars>>
  /\ UNCHANGED <<store, connections, limit, lenses, existing_contrasts, uncovered,
                 i, j, source_embedding, candidates, new_contrasts, abort_cause,
                 last_fetch, fetch_failed>>

\* save_contrasts, and main returns 0.
Save ==
  /\ pc = "source"
  /\ i > Len(uncovered)
  /\ output' = Append(output, [generated_count |-> Len(new_contrasts),
                               new_contrasts |-> new_contrasts])
  /\ pc' = "done"
  /\ exit_status' = <<0>>
  /\ UNCHANGED <<call_vars, re_vars>>
  /\ UNCHANGED <<store, connections, limit, lenses, existing_contrasts, uncovered,
                 i, j, source_embedding, candidates, new_contrasts, abort_cause,
                 last_fetch, fetch_failed>>

Next == Construct \/ ConstructFails \/ StartGenerate \/ BeginSource \/ ScanTarget \/ Save

\* ----------------------------------- reembed_with_sentence_transformers.py

\* The embedding the local model gives the text of a lens, as the store keeps it.
generate_query_embedding(lens) == ArrayEmbedding((lens.definition % 4) + 1)

\* reembed_lenses: the columns id and definition of every row.
fetch_lenses(rows) ==
  [k \in 1..Len(rows) |-> [id |-> rows[k].id, definition |-> rows[k].definition]]

\* reembed_lenses up to the loop without the return of the dry run.
ReembedStart_no_return ==
  /\ re_pc = "start"
  /\ re_lenses' = ApplyLimit(fetch_lenses(store), re_limit)
  /\ re_pc' = "loop"
  /\ re_index' = 1
  /\ updated' = 0
  /\ errors' = 0
  /\ UNCHANGED <<gen_vars, call_vars, re_limit, dry_run, attempt_log, update_log>>

\* reembed_lenses up to the loop: the store is opened, the lenses are fetched
\* and cut to the limit; a dry run returns here.
ReembedStart ==
  /\ re_pc = "start"
  /\ re_lenses' = ApplyLimit(fetch_lenses(store), re_limit)
  /\ re_pc' = IF dry_run THEN "done" ELSE "loop"
  /\ re_index' = 1
  /\ updated' = 0
  /\ errors' = 0
  /\ UNCHANGED <<gen_vars, call_vars, re_limit, dry_run, attempt_log, update_log>>

\* reembed_lenses ends before the loop: the local model is missing (exit 1),
\* or opening the store or fetching the lenses raises.
ReembedStartFails ==
  /\ re_pc = "start"
  /\ re_pc' \in {"exit", "crashed"}
  /\ UNCHANGED <<gen_vars, call_vars, re_limit, dry_run, re_lenses, re_index,
                 updated, errors, attempt_log, update_log>>

\* The counters with `updated += 1` placed before the update of the store.
Counted_before_update(outcome, n_updated, n_errors) ==
  IF outcome = "ok" THEN <<n_updated + 1, n_errors>>
  ELSE IF outcome = "update raises" THEN <<n_updated + 1, n_errors + 1>>
  ELSE <<n_updated, n_errors + 1>>

\* reembed_lenses: updated and errors after one round of the loop.
Counted(outcome, n_updated, n_errors) ==
  IF outcome = "ok" THEN <<n_updated + 1, n_errors>>
  ELSE <<n_updated, n_errors + 1>>

\* One round of the loop: the embedding is generated and written, or one of the
\* two calls raises and the error is counted.
ReembedOne ==
  /\ re_pc = "loop"
  /\ re_index <= Len(re_lenses)
  /\ \E outcome \in {"ok", "embedding raises", "update raises"} :
       LET lens == re_lenses[re_index]
       IN /\ attempt_log' = Append(attempt_log, lens.id)
          /\ updated' = Counted(outcome, updated, errors)[1]
          /\ errors' = Counted(outcome, updated, errors)[2]
          /\ IF outcome = "ok"
             THEN /\ store' = [store EXCEPT
                                 ![lens.id].embedding = generate_query_embedding(lens)]
                  /\ update_log' = Append(update_log, lens.id)
             ELSE UNCHANGED <<store, update_log>>
  /\ re_index' = re_index + 1
  /\ UNCHANGED <<connections, limit, run_vars, call_vars, re_pc, re_limit, dry_run,
                 re_lenses>>

\* reembed_lenses: the loop is over and the totals are printed.
ReembedFinish ==
  /\ re_pc = "loop"
  /\ re_index > Len(re_lenses)
  /\ re_pc' = "done"
  /\ UNCHANGED <<gen_vars, call_vars, re_limit, dry_run, re_lenses, re_index,
                 updated, errors, attempt_log, update_log>>

NextReembed == ReembedStart \/ ReembedStartFails \/ ReembedOne \/ ReembedFinish

\* ------------------------------------------------- calls of pure functions

\* calculate_dialectic_score(source_lens, target_lens) is called.
CallDialectic ==
  /\ call_args.fn = "calculate_dialectic_score"
  /\ call_result = <<>>
  /\ call_result' = <<calculate_dialectic_score(call_args.args[1], call_args.args[2])>>
  /\ UNCHANGED <<gen_vars, re_vars, call_args>>

\* The weight lines of generate_contrasts run on a combined score.
CallWeight ==
  /\ call_args.fn = "weight"
  /\ call_result = <<>>
  /\ call_result' = <<Weight(call_args.args[1])>>
  /\ UNCHANGED <<gen_vars, re_vars, call_args>>

\* find_contrast_candidates(source_lens, limit=N) is called on a generator that
\* has loaded the rows of the store and the connections file.
CallFind ==
  /\ call_args.fn = "find_contrast_candidates"
  /\ call_result = <<>>
  /\ call_result' = <<find_contrast_candidates(
                         call_args.args[1], call_args.args[2], load_lenses(store),
                         load_existing_contrasts(connections), store,
                         call_args.args[3])>>
  /\ UNCHANGED <<gen_vars, re_vars, call_args>>

NextScore == CallDialectic
NextFind == CallFind
NextWeight == CallWeight

\* ---------------------------------------------------------------- the runs

Row(id, d, cs, e) ==
  [id |-> id, definition |-> d, related_concepts |-> cs, embedding |-> e]

\* No field of the generator is set.
Unset ==
  /\ lenses = <<>>
  /\ existing_contrasts = <<>>
  /\ uncovered = <<>>
  /\ i = 0
  /\ j = 0
  /\ source_embedding = None
  /\ candidates = <<>>
  /\ new_contrasts = <<>>
  /\ output = <<>>
  /\ exit_status = <<>>
  /\ abort_cause = ""
  /\ last_fetch = "none"
  /\ fetch_failed = FALSE

\* main() has not started.
Idle == pc = "start" /\ Unset

\* generate_contrasts_json.py is not run.
NotRun == pc = "idle" /\ Unset

NoCall ==
  /\ call_args = [fn |-> "", args |-> <<>>]
  /\ call_result = <<>>

\* reembed_lenses() has not started.
ReembedUnset ==
  /\ re_lenses = <<>>
  /\ re_index = 0
  /\ updated = 0
  /\ errors = 0
  /\ attempt_log = <<>>
  /\ update_log = <<>>

\* reembed_lenses has not started.
ReembedIdle == re_pc = "start" /\ ReembedUnset

\* reembed_with_sentence_transformers.py is not run.
NoReembed ==
  /\ re_pc = "idle"
  /\ ReembedUnset
  /\ re_limit = <<>>
  /\ dry_run = FALSE

\* The rows the store is filled from: (definition, related_concepts, embedding).
\*   1  "slow closed rigid control", [ai, control], vector 1
\*   2  "freedom to change", [ai, freedom], vector 2
\*   3  "flexible informal open fast implicit bottom-up freedom",
\*      [AI, Strategy], vector 4 kept as a JSON string
\*   4  "", [ai], no embedding
Catalog ==
  << <<9, <<1, 3>>, ArrayEmbedding(1)>>,
     <<5, <<1, 4>>, ArrayEmbedding(2)>>,
     <<7, <<2, 6>>, StringEmbedding(4)>>,
     <<1, <<1>>, NullEmbedding>> >>

\* The rows lens k can be: a window of two rows of the catalog.
RowChoices(k) ==
  { Catalog[((k - 1) % Len(Catalog)) + 1], Catalog[((k + 2) % Len(Catalog)) + 1] }

Stores ==
  { [k \in LensIds |-> Row(k, choice[k][1], choice[k][2], choice[k][3])] :
      choice \in { c \in [LensIds -> Range(Catalog)] :
                     \A k \in LensIds : c[k] \in RowChoices(k) } }

\* The records the connections file can hold.
ConnectionChoices ==
  { [source_id |-> s, target_id |-> t, type |-> ty] :
      s \in LensIds, t \in LensIds, ty \in {"contrast", "complement"} }

RECURSIVE SeqsUpTo(_, _)
SeqsUpTo(S, n) ==
  IF n = 0 THEN {<<>>}
  ELSE LET shorter == SeqsUpTo(S, n - 1)
       IN shorter \cup {Append(s, x) : s \in {t \in shorter : Len(t) = n - 1}, x \in S}

LimitArgs == {<<>>} \cup {<<n>> : n \in 0..MaxLimit}

\* A run of generate_contrasts_json.py.
Init ==
  /\ store \in Stores
  /\ connections \in SeqsUpTo({c \in ConnectionChoices : c.source_id # c.target_id},
                              MaxConnections)
  /\ limit \in LimitArgs
  /\ Idle
  /\ NoCall
  /\ NoReembed

Spec == Init /\ [][Next]_vars

\* A run of generate_contrasts_json.py on a store of two lenses and no
\* existing connection.
InitPair ==
  /\ \E d1 \in {7, 9}, d2 \in {1, 5, 7, 9},
        c1 \in {<<>>, <<1, 3>>, <<6, 7>>},
        c2 \in {<<>>, <<1, 4>>, <<2, 6>>, <<5, 7>>, <<5>>},
        e1 \in {NullEmbedding} \cup {ArrayEmbedding(v) : v \in 1..3},
        e2 \in {NullEmbedding, ArrayEmbedding(ZeroVec), StringEmbedding(4),
                StringEmbedding(0)} \cup {ArrayEmbedding(v) : v \in VecIds} :
       store = <<Row(1, d1, c1, e1), Row(2, d2, c2, e2)>>
  /\ connections = <<>>
  /\ limit = <<>>
  /\ Idle
  /\ NoCall
  /\ NoReembed

SpecPair == InitPair /\ [][Next]_vars

\* A call of calculate_dialectic_score on two lenses.
InitScore ==
  /\ \E d1 \in DefIds, d2 \in DefIds :
       call_args = [fn |-> "calculate_dialectic_score",
                    args |-> <<[id |-> 1, definition |-> d1, related_concepts |-> <<>>],
                               [id |-> 2, definition |-> d2, related_concepts |-> <<>>]>>]
  /\ call_result = <<>>
  /\ store = <<>>
  /\ connections = <<>>
  /\ limit = <<>>
  /\ NotRun
  /\ NoReembed

SpecScore == InitScore /\ [][NextScore]_vars

\* find_contrast_candidates on any lens of a store, with any limit up to
\* MaxFindLimit and any pattern of failing requests.
InitFind ==
  /\ store \in Stores
  /\ connections \in {<<>>} \cup {<<c>> : c \in {x \in ConnectionChoices :
                                                 x.source_id # x.target_id}}
  /\ \E s \in LensIds, n \in 0..MaxFindLimit, fetch_ok \in [LensIds -> BOOLEAN] :
       call_args = [fn |-> "find_contrast_candidates",
                    args |-> <<load_lenses(store)[s], n, fetch_ok>>]
  /\ call_result = <<>>
  /\ limit = <<>>
  /\ NotRun
  /\ NoReembed

SpecFind == InitFind /\ [][NextFind]_vars

\* The weight lines of generate_contrasts on a combined score.
InitWeight ==
  /\ \E c \in 0..MaxScore : call_args = [fn |-> "weight", args |-> <<c>>]
  /\ call_result = <<>>
  /\ store = <<>>
  /\ connections = <<>>
  /\ limit = <<>>
  /\ NotRun
  /\ NoReembed

SpecWeight == InitWeight /\ [][NextWeight]_vars

\* A run of reembed_with_sentence_transformers.py.
InitReembed ==
  /\ store \in Stores
  /\ connections = <<>>
  /\ limit = <<>>
  /\ NotRun
  /\ NoCall
  /\ ReembedIdle
  /\ re_limit \in LimitArgs
  /\ dry_run \in BOOLEAN

SpecReembed == InitReembed /\ [][NextReembed]_vars

\* ------------------------------------------------------------------ claims

\* The unordered pair of ids a connection or a generated record is about.
PairOf(r) == {r.source_id, r.target_id}

\* The existing relationships of type 'contrast', as the connections file holds them.
FileContrasts == {connections[k] : k \in {n \in DOMAIN connections : connections[n].type = "contrast"}}

\* The records the run has generated so far, and those of every written artifact.
GeneratedRecords ==
  Range(new_contrasts) \cup UNION {Range(output[k].new_contrasts) : k \in DOMAIN output}

\* C1: no generated record relates a lens to itself, and none is about the
\* unordered pair of an existing relationship of type 'contrast', whichever
\* id that relationship stores as source.
C1_NoSelfNoDuplicate ==
  \A r \in GeneratedRecords :
     /\ r.source_id # r.target_id
     /\ \A c \in FileContrasts : PairOf(c) # PairOf(r)

\* C1 witness: a finished run that generated a record towards a lens that an
\* existing contrast covers, stored in either direction.
C1_Witness ==
  /\ pc = "done"
  /\ \E r \in Range(new_contrasts), c \in FileContrasts :
        /\ r.target_id \in PairOf(c)
        /\ c.source_id > c.target_id

\* A run of generate_contrasts_json.py, or the weight lines of
\* generate_contrasts on any combined score.
InitRecordWeight == Init \/ InitWeight
NextRecordWeight == Next \/ NextWeight
SpecRecordWeight == InitRecordWeight /\ [][NextRecordWeight]_vars

\* C2: every generated record has a weight from 0.80 to 0.95, and so has the
\* weight the lines 270-271 give any combined score from 0 to MaxScore, also
\* one below 0.45 or above 0.95.
C2_WeightInRange ==
  /\ \A r \in GeneratedRecords : 80 <= r.weight /\ r.weight <= 95
  /\ (call_args.fn = "weight" /\ call_result # <<>>) =>
       (80 <= call_result[1] /\ call_result[1] <= 95)

\* C2 witness: a finished run whose record has a weight strictly inside the range.
C2_Witness ==
  /\ pc = "done"
  /\ \E r \in Range(new_contrasts) : 80 < r.weight /\ r.weight < 95

\* The store of the end-to-end scenario: A is about control, B about freedom,
\* both carry the tag ai, and their embeddings are at distance 0.75.
C3_Scenario ==
  /\ Len(store) = 2
  /\ connections = <<>>
  /\ Contains(dialectic_pairs[2][1], lower(DefText[store[1].definition]))
  /\ Contains(dialectic_pairs[2][2], lower(DefText[store[2].definition]))
  /\ store[1].related_concepts = <<1, 3>>
  /\ store[2].related_concepts = <<1, 4>>
  /\ store[1].embedding = ArrayEmbedding(1)
  /\ store[2].embedding = ArrayEmbedding(2)
  /\ DistanceTable[1][2] = 750

\* The record the scenario expects: dialectic_score 0.2, combined_score 0.585,
\* weight 0.84.
C3_ExpectedRecord(r) ==
  /\ r.metadata.dialectic_score = 200
  /\ r.metadata.combined_score = 585
  /\ r.weight = 84
  /\ r.metadata.distance = 750

\* C3: in the end-to-end scenario a run in which every fetch succeeds produces
\* exactly one record, and it has dialectic_score 0.2, combined_score 0.585
\* and weight 0.84.
C3_OneRecord ==
  (C3_Scenario /\ pc = "done" /\ ~fetch_failed) =>
     /\ Len(new_contrasts) = 1
     /\ C3_ExpectedRecord(new_contrasts[1])

\* C3, what the code does: the scenario ends with two records, A -> B and
\* B -> A, each with the expected scores and weight.
C3_TwoRecords ==
  /\ C3_Scenario /\ pc = "done" /\ ~fetch_failed
  /\ Len(new_contrasts) = 2
  /\ new_contrasts[1].source_id = 1 /\ new_contrasts[1].target_id = 2
  /\ new_contrasts[2].source_id = 2 /\ new_contrasts[2].target_id = 1
  /\ C3_ExpectedRecord(new_contrasts[1])
  /\ C3_ExpectedRecord(new_contrasts[2])

\* The related concepts of a lens, case-folded.
FoldedTags(lens) ==
  {lower(ConceptText[lens.related_concepts[n]]) : n \in DOMAIN lens.related_concepts}

\* The distance of the stored embeddings of two lenses that both have one.
StoredDistance(s, t) ==
  cosine_distance(store[s.id].embedding.vec, store[t.id].embedding.vec)

\* The admission rule: the distance lies in [0.65, 0.92], and the lenses share
\* a tag outside the stoplist, or two tags.
C4_Rule(s, t) ==
  LET d == StoredDistance(s, t)
      shared == {x \in FoldedTags(s) : x \in FoldedTags(t)}
  IN /\ d >= 650 /\ d <= 920
     /\ \/ \E x \in shared : x \notin generic_concepts
        \/ \E x \in shared, y \in shared : x # y

\* The step of find_contrast_candidates that has fetched the embedding of
\* target lenses[j] for source uncovered[i].
C4_TargetFetched == pc = "targets" /\ last_fetch' = "ok"

\* C4: a target whose embedding was fetched is admitted if and only if the
\* admission rule holds; at distance 0.5 it never is, at distance 0.8 it is
\* not without a shared tag and it is with one shared tag outside the stoplist.
C4_Admission ==
  [][C4_TargetFetched =>
       LET s == uncovered[i]
           t == lenses[j]
           admitted == \E n \in DOMAIN candidates' : candidates'[n].lens.id = t.id
           shared == FoldedTags(s) \cap FoldedTags(t)
       IN /\ admitted <=> C4_Rule(s, t)
          /\ StoredDistance(s, t) = 500 => ~admitted
          /\ (StoredDistance(s, t) = 800 /\ shared = {}) => ~admitted
          /\ (StoredDistance(s, t) = 800 /\ Cardinality(shared \ generic_concepts) = 1)
                => admitted]_vars

\* C4 witness: a target at distance 0.8 was admitted on one shared tag, which
\* is outside the stoplist.
C4_Witness ==
  \E n \in DOMAIN candidates :
     /\ candidates[n].distance = 800
     /\ Cardinality(candidates[n].shared_concepts) = 1
     /\ candidates[n].shared_concepts \cap generic_concepts = {}

\* The number of opposing-word pairs that two texts match, in either direction.
C5_MatchingPairs(a, b) ==
  Cardinality({n \in 1..15 :
     LET w1 == dialectic_pairs[n][1]
         w2 == dialectic_pairs[n][2]
     IN \/ Contains(w1, lower(a)) /\ Contains(w2, lower(b))
        \/ Contains(w1, lower(b)) /\ Contains(w2, lower(a))})

\* C5: calculate_dialectic_score returns min(1.0, 0.2 * k) for the k pairs that
\* match, each counted once; 0.2 for 'a centralized system' against
\* 'a decentralized network'; never more than 1.0; the same with the two
\* lenses swapped.
C5_DialecticScore ==
  (call_args.fn = "calculate_dialectic_score" /\ call_result # <<>>) =>
     LET a == call_args.args[1]
         b == call_args.args[2]
         k == C5_MatchingPairs(DefText[a.definition], DefText[b.definition])
     IN /\ call_result[1] = Min(1000, 200 * k)
        /\ call_result[1] <= 1000
        /\ call_result[1] = calculate_dialectic_score(b, a)
        /\ (a.definition = 2 /\ b.definition = 3) => call_result[1] = 200

\* C5 witness: more than five pairs match and the score returned is 1.0.
C5_Witness ==
  /\ call_args.fn = "calculate_dialectic_score"
  /\ call_result = <<1000>>
  /\ C5_MatchingPairs(DefText[call_args.args[1].definition],
                      DefText[call_args.args[2].definition]) > 5

\* C6: the weight is 0.80 + (combined_score - 0.45) * 0.30 rounded to two
\* decimals and clamped to [0.80, 0.95]; 0.45 gives 0.80, 0.95 gives 0.95,
\* 1.2 gives 0.95; and a larger combined score never gives a smaller weight
\* (checked against the next smaller score of the grid).
C6_WeightMapping ==
  (call_args.fn = "weight" /\ call_result # <<>>) =>
     LET c == call_args.args[1]
         exact == 80000 + (c - 4500) * 3
         rounded == IF exact % 1000 >= 500 THEN (exact \div 1000) + 1 ELSE exact \div 1000
         clamped == IF rounded < 80 THEN 80 ELSE IF rounded > 95 THEN 95 ELSE rounded
     IN /\ call_result[1] = clamped
        /\ c = 4500 => call_result[1] = 80
        /\ c = 9500 => call_result[1] = 95
        /\ c = 12000 => call_result[1] = 95
        /\ c > 0 => Weight(c - 1) <= call_result[1]

\* C6 witness: the weight of a combined score of 1.2 was computed, and is 0.95.
C6_Witness ==
  /\ call_args = [fn |-> "weight", args |-> <<12000>>]
  /\ call_result = <<95>>

\* A fetch of an embedding has just failed: the request raised, or the row has
\* no embedding that can be decoded.
C7_FetchFailed == last_fetch' \in {"error", "missing"}

\* C7: a failed fetch of an embedding raises nothing. Failing for the source,
\* it ends that source without a record and the loop goes on to the next
\* source; failing for a target, it leaves that target out of the candidates of
\* this source and the scan goes on to the next target. The run never aborts
\* after construction, can always take a step until it is done, and is done
\* only when every uncovered source was processed and the output was written.
C7_FetchFailuresIsolated ==
  /\ [](pc = "failed" => abort_cause \in {"credentials", "lenses", "connections"})
  /\ [](pc \notin {"done", "failed"} => ENABLED Next)
  /\ [](pc = "done" => (i = Len(uncovered) + 1 /\ Len(output) = 1))
  /\ [][(pc = "source" /\ i <= Len(uncovered) /\ C7_FetchFailed) =>
          /\ pc' = "source" /\ i' = i + 1
          /\ new_contrasts' = new_contrasts]_vars
  /\ [][(pc = "targets" /\ C7_FetchFailed) =>
          /\ pc' \in {"targets", "source"} /\ j' = j + 1
          /\ \A n \in DOMAIN candidates' : candidates'[n].lens.id # lenses[j].id
          /\ Range(candidates') = Range(candidates)]_vars

\* C7 witness: a run in which a fetch failed is done and has written its
\* output; a lens that has an embedding in the store got no record as a source,
\* and is the target of the record of another source.
C7_Witness ==
  /\ pc = "done" /\ Len(output) = 1
  /\ fetch_failed
  /\ \E k \in DOMAIN uncovered :
       /\ store[uncovered[k].id].embedding.kind = "array"
       /\ \A r \in Range(new_contrasts) : r.source_id # uncovered[k].id
       /\ \E r \in Range(new_contrasts) : r.target_id = uncovered[k].id

\* Whether the connections file has a contrast record with this id at an end.
C8_Covered(id) == \E c \in FileContrasts : id \in PairOf(c)

\* The candidates admitted for the source that a step finishes: those of the
\* earlier targets and what the last target added; none when the source has
\* no embedding.
C8_Admitted ==
  IF pc = "targets" THEN Range(candidates) \cup Range(candidates')
  ELSE Range(candidates')

\* C8: the source of every record is an entity that no contrast record of the
\* connections file touches; no entity is the source of two records; and when
\* a source is finished, nothing is added if no target was admitted, and
\* otherwise one record is added whose target is an admitted candidate with
\* the largest combined score of all admitted candidates. No error is raised.
C8_OneBestPerSource ==
  /\ [](\A r \in GeneratedRecords : ~C8_Covered(r.source_id))
  /\ [](\A m \in DOMAIN new_contrasts, n \in DOMAIN new_contrasts :
          new_contrasts[m].source_id = new_contrasts[n].source_id => m = n)
  /\ [][(pc \in {"source", "targets"} /\ i' = i + 1) =>
          /\ pc' = "source"
          /\ IF C8_Admitted = {}
             THEN new_contrasts' = new_contrasts
             ELSE /\ Len(new_contrasts') = Len(new_contrasts) + 1
                  /\ SubSeq(new_contrasts', 1, Len(new_contrasts)) = new_contrasts
                  /\ LET r == new_contrasts'[Len(new_contrasts')]
                     IN /\ r.source_id = uncovered[i].id
                        /\ \E c \in C8_Admitted :
                              /\ c.lens.id = r.target_id
                              /\ \A other \in C8_Admitted :
                                    other.combined_score <= c.combined_score]_vars

\* C8 witness: a source was finished with two candidates admitted, the one
\* scanned later has the larger combined score, and it is the target of the
\* record of that source.
C8_Witness ==
  /\ pc = "source" /\ i > 1 /\ new_contrasts # <<>>
  /\ Len(candidates) = 2
  /\ candidates[1].lens.id > candidates[2].lens.id
  /\ candidates[1].combined_score > candidates[2].combined_score
  /\ new_contrasts[Len(new_contrasts)].source_id = uncovered[i - 1].id
  /\ new_contrasts[Len(new_contrasts)].target_id = candidates[1].lens.id

\* C9: the output is written at most once, by the step that ends the run with
\* exit status 0, and only when every uncovered source was processed; a run
\* that is done has written it once; a run that failed to fetch the lenses or
\* to load the connections file has exit status 1 and no output; and
\* generated_count is the number of records written.
C9_OutputOnceAtEnd ==
  /\ [](Len(output) <= 1)
  /\ [](Len(output) = 1 <=> pc = "done")
  /\ [](pc = "done" => exit_status = <<0>>)
  /\ [](pc = "failed" => (exit_status = <<1>> /\ output = <<>>))
  /\ [](\A n \in DOMAIN output :
          /\ output[n].generated_count = Len(output[n].new_contrasts)
          /\ output[n].new_contrasts = new_contrasts)
  /\ [][output' # output =>
          /\ output = <<>> /\ Len(output') = 1
          /\ pc = "source" /\ i = Len(uncovered) + 1
          /\ pc' = "done"]_vars

\* C9 witness: a run over three uncovered sources is done and its output holds
\* two records.
C9_Witness ==
  /\ pc = "done"
  /\ Len(uncovered) = 3
  /\ Len(output) = 1
  /\ output[1].generated_count = 2

\* The ids of the first n selected lenses, in list order.
C10_Ids(n) == [k \in 1..n |-> re_lenses[k].id]

\* C10: the loop of reembed_lenses has attempted the selected lenses before
\* re_index, each once and in list order; every attempt adds one to exactly one
\* of updated and errors, also when the embedding or the update raised, and
\* the loop goes on; updated is the number of embeddings written; and when the
\* loop has ended every selected lens was attempted, so updated + errors is
\* the number of selected lenses.
C10_LoopCounts ==
  /\ [](re_pc \in {"loop", "done"} /\ ~dry_run =>
          /\ attempt_log = C10_Ids(re_index - 1)
          /\ updated + errors = Len(attempt_log)
          /\ updated = Len(update_log))
  /\ [](re_pc = "done" /\ ~dry_run =>
          /\ attempt_log = C10_Ids(Len(re_lenses))
          /\ updated + errors = Len(re_lenses))
  /\ [][attempt_log' # attempt_log =>
          /\ \/ updated' = updated + 1 /\ errors' = errors
             \/ updated' = updated /\ errors' = errors + 1
          /\ (updated' = updated + 1) <=> (Len(update_log') = Len(update_log) + 1)
          /\ re_pc' = "loop" /\ re_index' = re_index + 1]_vars

\* C10 witness: the loop has ended over three selected lenses; the attempt on
\* the first failed, and the embedding of a later one was written.
C10_Witness ==
  /\ re_pc = "done" /\ ~dry_run
  /\ Len(re_lenses) = 3
  /\ errors >= 1 /\ updated >= 1
  /\ re_lenses[1].id \notin Range(update_log)
  /\ re_lenses[3].id \in Range(update_log)

\* Whether a request for the embedding of lens id that returns or not, as
\* fetch_ok[id] says, gives an embedding: the row has one that can be decoded.
C11_HasEmbedding(id, fetch_ok) ==
  /\ fetch_ok[id]
  /\ store[id].embedding.kind \in {"array", "string"}
  /\ store[id].embedding.vec # 0

\* The lenses admitted for a source: another lens, in no contrast record of the
\* connections file with the source, source and target both with an embedding,
\* and the admission rule holds.
C11_Admitted(source_lens, fetch_ok) ==
  {t \in Range(load_lenses(store)) :
     /\ t.id # source_lens.id
     /\ \A c \in FileContrasts : PairOf(c) # {source_lens.id, t.id}
     /\ C11_HasEmbedding(source_lens.id, fetch_ok)
     /\ C11_HasEmbedding(t.id, fetch_ok)
     /\ C4_Rule(source_lens, t)}

\* 0.7 * distance + 0.3 * dialectic score, in ten-thousandths.
C11_Score(source_lens, t) ==
  7 * StoredDistance(source_lens, t) + 3 * calculate_dialectic_score(source_lens, t)

\* C11: find_contrast_candidates(source, limit=N) returns at most N candidates,
\* all of them admitted and each once, with their combined scores
\* 0.7 * distance + 0.3 * dialectic score from highest to lowest; every admitted
\* lens left out scores no more than every candidate returned, and none is left
\* out while fewer than N are returned; a source without embedding gets the
\* empty list.
C11_TopCandidates ==
  (call_args.fn = "find_contrast_candidates" /\ call_result # <<>>) =>
     LET source_lens == call_args.args[1]
         N == call_args.args[2]
         fetch_ok == call_args.args[3]
         returned == call_result[1]
         admitted == C11_Admitted(source_lens, fetch_ok)
         kept == {returned[k].lens : k \in DOMAIN returned}
     IN /\ Len(returned) <= N
        /\ \A k \in 1..(Len(returned) - 1) :
              returned[k].combined_score >= returned[k + 1].combined_score
        /\ \A k \in DOMAIN returned :
              /\ returned[k].lens \in admitted
              /\ returned[k].combined_score = C11_Score(source_lens, returned[k].lens)
        /\ Cardinality(kept) = Len(returned)
        /\ \A t \in admitted \ kept : \A k \in DOMAIN returned :
              C11_Score(source_lens, t) <= returned[k].combined_score
        /\ Len(returned) = Min(N, Cardinality(admitted))
        /\ ~C11_HasEmbedding(source_lens.id, fetch_ok) => returned = <<>>

\* C11 witness: the limit is reached, and a lens that was admitted before the
\* ones returned is left out with a smaller score.
C11_Witness ==
  /\ call_args.fn = "find_contrast_candidates" /\ call_result # <<>>
  /\ call_args.args[2] >= 1
  /\ Len(call_result[1]) = call_args.args[2]
  /\ \E t \in C11_Admitted(call_args.args[1], call_args.args[3]) :
        \A k \in DOMAIN call_result[1] :
           /\ t.id < call_result[1][k].lens.id
           /\ C11_Score(call_args.args[1], t) < call_result[1][k].combined_score

\* A run of generate_contrasts_json.py or a run of
\* reembed_with_sentence_transformers.py, each with or without --limit.
InitLimit == Init \/ InitReembed
NextLimit == Next \/ NextReembed
SpecLimit == InitLimit /\ [][NextLimit]_vars

\* The uncovered lenses of the store, in list order.
C12_Uncovered ==
  LET RECURSIVE Keep(_)
      Keep(k) == IF k > Len(store) THEN <<>>
                 ELSE IF \E c \in FileContrasts : store[k].id \in PairOf(c)
                      THEN Keep(k + 1)
                      ELSE <<store[k].id>> \o Keep(k + 1)
  IN Keep(1)

\* The first n entries of a list of ids, as a set.
C12_First(ids, n) == {ids[k] : k \in {m \in DOMAIN ids : m <= n}}

\* C12: with a limit N >= 0 on the command line, generate_contrasts looks for
\* contrasts of at most the first N uncovered lenses and the batch holds at
\* most N records, and reembed_lenses attempts and writes at most the first N
\* lenses of the fetched list.
C12_AtMostLimit ==
  /\ (limit # <<>> /\ pc \in {"source", "targets", "done"}) =>
        /\ Len(uncovered) <= limit[1]
        /\ \A k \in DOMAIN uncovered : uncovered[k].id \in C12_First(C12_Uncovered, limit[1])
        /\ Len(new_contrasts) <= limit[1]
        /\ \A r \in GeneratedRecords : r.source_id \in C12_First(C12_Uncovered, limit[1])
  /\ (re_limit # <<>> /\ re_pc \in {"loop", "done"}) =>
        /\ Len(re_lenses) <= re_limit[1]
        /\ Len(update_log) <= re_limit[1]
        /\ \A id \in Range(attempt_log) \cup Range(update_log) :
              id \in C12_First([k \in DOMAIN store |-> store[k].id], re_limit[1])

\* C12 restricted to N >= 1, where the code keeps the limit.
C12_PositiveLimit ==
  ((limit # <<>> => limit[1] >= 1) /\ (re_limit # <<>> => re_limit[1] >= 1))
     => C12_AtMostLimit

\* C12, what the code does with --limit 0 in reembed_lenses: the embedding of
\* every lens of the store can be written.
C12_ZeroLimitReembedsAll ==
  /\ re_limit = <<0>> /\ ~dry_run /\ re_pc = "done"
  /\ Len(update_log) = Len(store)
  /\ Len(store) > 0

\* C12, what the code does with --limit 0 in generate_contrasts: every
\* uncovered lens is processed and the batch holds records.
C12_ZeroLimitGeneratesAll ==
  /\ limit = <<0>> /\ pc = "done"
  /\ Len(uncovered) = Len(store)
  /\ Len(new_contrasts) >= 2

\* C13: a run of reembed_lenses with dry_run set never enters the loop: no
\* embedding is generated and no update is sent for any lens, and no step
\* changes a row of the store, with any limit and any store.
C13_DryRunChangesNothing ==
  /\ [](dry_run => (attempt_log = <<>> /\ update_log = <<>> /\ re_pc # "loop"))
  /\ [][dry_run => (store' = store /\ attempt_log' = attempt_log
                    /\ update_log' = update_log)]_vars

\* C13 witness: a dry run over three fetched lenses has returned, and nothing
\* was attempted or written.
C13_Witness ==
  /\ dry_run /\ re_pc = "done"
  /\ Len(re_lenses) = 3
  /\ attempt_log = <<>> /\ update_log = <<>>

\* C14: no two records of the batch of one run are about the same unordered
\* pair of lenses.
C14_NoPairTwice ==
  \A m \in DOMAIN new_contrasts, n \in DOMAIN new_contrasts :
     PairOf(new_contrasts[m]) = PairOf(new_contrasts[n]) => m = n

\* C14, what the code does: in a finished run over three lenses, the record
\* of a later source is the mirror image of the record of an earlier one.
C14_MirroredRecords ==
  /\ pc = "done" /\ Len(store) = 3
  /\ \E m \in DOMAIN new_contrasts, n \in DOMAIN new_contrasts :
        /\ m < n
        /\ new_contrasts[m].source_id = new_contrasts[n].target_id
        /\ new_contrasts[m].target_id = new_contrasts[n].source_id
====
